---- MODULE Spec2Model ----
(***************************************************************************)
(* Model of the Stardog LangChain/MCP demo: the two query backends         *)
(* (backends/langchain_backend.py, backends/mcp_backend.py), the chain     *)
(* helpers of backends/langchain_tools.py and the Streamlit session of     *)
(* app.py (sidebar handlers and the mode dispatch of main).                *)
(*                                                                         *)
(* Python values are encoded as follows.  None and the empty string, the  *)
(* two falsy values a conversation id takes in the code, are NoId; the    *)
(* ids issued by the service are the positive integers ConvIds.  A text is *)
(* a sequence of one-character strings.  The answer of a service response  *)
(* is kept by its Python type only (AnswerKinds), which is all that the   *)
(* backends and the renderer depend on.                                    *)
(***************************************************************************)
EXTENDS Integers, Sequences, FiniteSets, TLC

(***************************************************************************)
(* Bounds of the model.                                                    *)
(***************************************************************************)
\* number of distinct conversation ids the service issues
NumIds == 2
\* number of prompts a chat history holds before Clear Chat is needed
MaxPrompts == 2
\* longest agent transcript explored
MaxMsgs == 4
\* longest text handed to detect_language on its own
MaxTextLen == 4
\* longest expression handed to calculator on its own
MaxExprLen == 3

NoId == 0
ConvIds == 1..NumIds

(***************************************************************************)
(* Texts are sequences of characters.  Lower is str.lower() on the letters *)
(* of the tables below (langchain_tools.py:29 lowers before matching).    *)
(***************************************************************************)
UpperCase == <<"A","B","C","D","E","F","G","H","I","J","K","L","M",
               "N","O","P","Q","R","S","T","U","V","W","X","Y","Z",
               "É","Á","Ó","Ü">>
LowerCase == <<"a","b","c","d","e","f","g","h","i","j","k","l","m",
               "n","o","p","q","r","s","t","u","v","w","x","y","z",
               "é","á","ó","ü">>

LowerChar(c) ==
  IF \E i \in 1..Len(UpperCase) : UpperCase[i] = c
  THEN LowerCase[CHOOSE i \in 1..Len(UpperCase) : UpperCase[i] = c]
  ELSE c

Lower(text) == [i \in 1..Len(text) |-> LowerChar(text[i])]

\* Python's  keyword in text  on strings: a contiguous occurrence
Contains(text, keyword) ==
  \E i \in 0..(Len(text) - Len(keyword)) :
     \A j \in 1..Len(keyword) : text[i + j] = keyword[j]

spanish_keywords ==
  << <<"q","u","é">>, <<"c","u","á","l">>, <<"c","u","á","l","e","s">>,
     <<"c","ó","m","o">>, <<"d","ó","n","d","e">>, <<"p","o","r">>,
     <<"p","a","r","a">>, <<"e","l">>, <<"l","a">>, <<"l","o","s">>,
     <<"l","a","s">>, <<"l","i","s","t","a">>,
     <<"p","r","o","d","u","c","t","o","s">>,
     <<"p","r","o","d","u","c","t","o">> >>

german_keywords ==
  << <<"w","i","e">>, <<"w","a","s">>, <<"w","o">>, <<"d","e","r">>,
     <<"d","i","e">>, <<"d","a","s">>, <<"u","n","d">>, <<"f","ü","r">>,
     <<"ü","b","e","r">> >>

\* sum(1 for keyword in keywords if keyword in text_lower)
KeywordCount(keywords, text_lower) ==
  Cardinality({i \in 1..Len(keywords) : Contains(text_lower, keywords[i])})

\* faulty variant: the German keywords are tested first
detect_language_german_first(text) ==
  LET text_lower == Lower(text)
      spanish_count == KeywordCount(spanish_keywords, text_lower)
      german_count == KeywordCount(german_keywords, text_lower)
  IN IF german_count > 0 THEN "German"
     ELSE IF spanish_count > 0 THEN "Spanish"
     ELSE "English"

detect_language(text) ==
  LET text_lower == Lower(text)
      spanish_count == KeywordCount(spanish_keywords, text_lower)
      german_count == KeywordCount(german_keywords, text_lower)
  IN IF spanish_count > 0 THEN "Spanish"
     ELSE IF german_count > 0 THEN "German"
     ELSE "English"

(***************************************************************************)
(* calculate_distance.  A distance is a number of miles.                   *)
(***************************************************************************)
UpperChar(c) ==
  IF \E i \in 1..Len(LowerCase) : LowerCase[i] = c
  THEN UpperCase[CHOOSE i \in 1..Len(LowerCase) : LowerCase[i] = c]
  ELSE c

IsLetter(c) ==
  \E i \in 1..Len(UpperCase) : c = UpperCase[i] \/ c = LowerCase[i]

\* str.strip(): the text without the blanks at its two ends
RECURSIVE Strip(_)
Strip(text) ==
  IF text = <<>> THEN text
  ELSE IF Head(text) = " " THEN Strip(Tail(text))
  ELSE IF text[Len(text)] = " " THEN Strip(SubSeq(text, 1, Len(text) - 1))
  ELSE text

\* str.title(): a letter that follows no letter in upper case, every other
\* letter in lower case
Title(text) ==
  [i \in 1..Len(text) |->
     IF i = 1 \/ ~IsLetter(text[i - 1]) THEN UpperChar(text[i])
     ELSE LowerChar(text[i])]

LosAngeles ==
  <<"L","o","s"," ","A","n","g","e","l","e","s">>
SanFrancisco ==
  <<"S","a","n"," ","F","r","a","n","c","i","s","c","o">>
SanDiego ==
  <<"S","a","n"," ","D","i","e","g","o">>
LasVegas ==
  <<"L","a","s"," ","V","e","g","a","s">>
Sacramento ==
  <<"S","a","c","r","a","m","e","n","t","o">>
SanJose ==
  <<"S","a","n"," ","J","o","s","e">>
NewYork ==
  <<"N","e","w"," ","Y","o","r","k">>
Boston ==
  <<"B","o","s","t","o","n">>
Philadelphia ==
  <<"P","h","i","l","a","d","e","l","p","h","i","a">>
Chicago ==
  <<"C","h","i","c","a","g","o">>
Detroit ==
  <<"D","e","t","r","o","i","t">>
Milwaukee ==
  <<"M","i","l","w","a","u","k","e","e">>

\* the dict of mock distances, an entry <<from, to, miles>> for every key
city_distances ==
  {<<LosAngeles, SanFrancisco, 383>>,
   <<LosAngeles, SanDiego, 120>>,
   <<LosAngeles, LasVegas, 270>>,
   <<SanFrancisco, LosAngeles, 383>>,
   <<SanFrancisco, Sacramento, 88>>,
   <<SanFrancisco, SanJose, 48>>,
   <<NewYork, Boston, 215>>,
   <<NewYork, Philadelphia, 95>>,
   <<Chicago, Detroit, 283>>,
   <<Chicago, Milwaukee, 92>>}

\* return 250.0
DefaultDistance == 250

\* key in city_distances ; city_distances[key]
Listed(key) == \E e \in city_distances : <<e[1], e[2]>> = key
Lookup(key) == (CHOOSE e \in city_distances : <<e[1], e[2]>> = key)[3]

\* faulty variant: the table is read in one direction only
calculate_distance_one_way(location1, location2) ==
  LET loc1 == Title(Strip(location1))
      loc2 == Title(Strip(location2))
      key == <<loc1, loc2>>
  IN IF Listed(key) THEN Lookup(key) ELSE DefaultDistance

calculate_distance(location1, location2) ==
  LET loc1 == Title(Strip(location1))
      loc2 == Title(Strip(location2))
      key == <<loc1, loc2>>
      reverse_key == <<loc2, loc1>>
  IN IF Listed(key) THEN Lookup(key)
     ELSE IF Listed(reverse_key) THEN Lookup(reverse_key)
     ELSE DefaultDistance

(***************************************************************************)
(* calculate_shipping_cost.  Money is kept in cents, a distance in         *)
(* hundredths of a mile and a rate in cents a mile, so that the product of *)
(* a distance and a rate is in hundredths of a cent.                       *)
(***************************************************************************)
\* round(x, 2) of an amount x >= 0 given in hundredths of a cent: the
\* nearest cent, the even one of two that are equally near
Round2(x) ==
  LET q == x \div 100
      r == x % 100
  IN IF r < 50 THEN q
     ELSE IF r > 50 THEN q + 1
     ELSE IF q % 2 = 0 THEN q ELSE q + 1

\* faulty variant: an order of exactly $100 falls into the large tier
calculate_shipping_cost_exclusive(distance_miles, order_value) ==
  LET tiered == IF order_value < 2000
                THEN [rate |-> 50, tier |-> "Small order (<$20)"]
                ELSE IF order_value < 10000
                THEN [rate |-> 20, tier |-> "Medium order ($20-$100)"]
                ELSE [rate |-> 30, tier |-> "Large order (>$100)"]
      shipping_cost == distance_miles * tiered.rate
  IN [shipping_cost |-> Round2(shipping_cost),
      rate_per_mile |-> tiered.rate,
      tier |-> tiered.tier,
      distance_miles |-> distance_miles,
      order_value |-> order_value]

calculate_shipping_cost(distance_miles, order_value) ==
  LET tiered == IF order_value < 2000
                THEN [rate |-> 50, tier |-> "Small order (<$20)"]
                ELSE IF order_value <= 10000
                THEN [rate |-> 20, tier |-> "Medium order ($20-$100)"]
                ELSE [rate |-> 30, tier |-> "Large order (>$100)"]
      shipping_cost == distance_miles * tiered.rate
  IN [shipping_cost |-> Round2(shipping_cost),
      rate_per_mile |-> tiered.rate,
      tier |-> tiered.tier,
      distance_miles |-> distance_miles,
      order_value |-> order_value]

(***************************************************************************)
(* translate_text and _mock_translate.  A language is named by a string;   *)
(* LanguageName gives the characters of the name for the formatted result. *)
(* translator is what the deep-translator call does when it is tried: the  *)
(* package is not installed (ImportError), the call raises, or it returns  *)
(* a text.                                                                 *)
(***************************************************************************)
LanguageName(lang) ==
  CASE lang = "English" -> <<"E","n","g","l","i","s","h">>
    [] lang = "Spanish" -> <<"S","p","a","n","i","s","h">>
    [] lang = "German" -> <<"G","e","r","m","a","n">>
    [] OTHER -> <<"F","r","e","n","c","h">>

\* lang_to_code.get(lang, default)
lang_to_code(lang, default) ==
  CASE lang = "English" -> "en"
    [] lang = "Spanish" -> "es"
    [] lang = "German" -> "de"
    [] OTHER -> default

\* the dict translations, an entry <<source, target, text, translated>>
\* for every phrase of every language pair
translations ==
  {<<"Spanish", "English",
     <<"¿","C","u","á","l","e","s"," ","s","o","n"," ","l","o","s"," ","m",
       "e","j","o","r","e","s"," ","p","r","o","d","u","c","t","o","s","?">>,
     <<"W","h","a","t"," ","a","r","e"," ","t","h","e"," ","b","e","s","t",
       " ","p","r","o","d","u","c","t","s","?">>>>,
   <<"Spanish", "English",
     <<"¿","C","u","á","l"," ","e","s"," ","e","l"," ","t","o","t","a","l",
       " ","d","e"," ","p","e","d","i","d","o","s","?">>,
     <<"W","h","a","t"," ","i","s"," ","t","h","e"," ","t","o","t","a","l",
       " ","o","f"," ","o","r","d","e","r","s","?">>>>,
   <<"Spanish", "English",
     <<"L","i","s","t","a"," ","d","e"," ","5"," ","p","r","o","d","u","c",
       "t","o","s"," ","p","o","p","u","l","a","r","e","s">>,
     <<"L","i","s","t"," ","o","f"," ","5"," ","p","o","p","u","l","a","r",
       " ","p","r","o","d","u","c","t","s">>>>,
   <<"Spanish", "English",
     <<"M","u","é","s","t","r","a","m","e"," ","l","o","s"," ","c","l","i",
       "e","n","t","e","s"," ","p","r","i","n","c","i","p","a","l","e","s">>,
     <<"S","h","o","w"," ","m","e"," ","t","h","e"," ","t","o","p"," ","c",
       "u","s","t","o","m","e","r","s">>>>,
   <<"English", "Spanish",
     <<"T","h","e"," ","t","o","p"," ","p","r","o","d","u","c","t","s"," ",
       "a","r","e">>,
     <<"L","o","s"," ","m","e","j","o","r","e","s"," ","p","r","o","d","u",
       "c","t","o","s"," ","s","o","n">>>>,
   <<"English", "Spanish",
     <<"T","h","e"," ","t","o","t","a","l"," ","i","s">>,
     <<"E","l"," ","t","o","t","a","l"," ","e","s">>>>,
   <<"English", "Spanish",
     <<"H","e","r","e"," ","a","r","e"," ","t","h","e"," ","r","e","s","u",
       "l","t","s">>,
     <<"A","q","u","í"," ","e","s","t","á","n"," ","l","o","s"," ","r","e",
       "s","u","l","t","a","d","o","s">>>>,
   <<"German", "English",
     <<"W","a","s"," ","s","i","n","d"," ","d","i","e"," ","b","e","s","t",
       "e","n"," ","P","r","o","d","u","k","t","e","?">>,
     <<"W","h","a","t"," ","a","r","e"," ","t","h","e"," ","b","e","s","t",
       " ","p","r","o","d","u","c","t","s","?">>>>,
   <<"German", "English",
     <<"Z","e","i","g","e"," ","m","i","r"," ","d","i","e"," ","T","o","p",
       "-","K","u","n","d","e","n">>,
     <<"S","h","o","w"," ","m","e"," ","t","h","e"," ","t","o","p"," ","c",
       "u","s","t","o","m","e","r","s">>>>}

\* f"[Translation {source_lang}→{target_lang}]: {text}"
PassThrough(text, source_lang, target_lang) ==
  <<"[","T","r","a","n","s","l","a","t","i","o","n"," ">>
    \o LanguageName(source_lang) \o <<"→">> \o LanguageName(target_lang)
    \o <<"]", ":", " ">> \o text

\* faulty variant: the table is not consulted
mock_translate_no_table(text, source_lang, target_lang) ==
  PassThrough(text, source_lang, target_lang)

\* _mock_translate
mock_translate(text, source_lang, target_lang) ==
  LET found == {e \in translations :
                  <<e[1], e[2], e[3]>> = <<source_lang, target_lang, text>>}
  IN IF found # {} THEN (CHOOSE e \in found : TRUE)[4]
     ELSE PassThrough(text, source_lang, target_lang)

\* the result of translate_text: the text it returns, or raised; external
\* is the call to the translator it made, "none" when it made none
translate_text(text, source_lang, target_lang, translator) ==
  IF source_lang = target_lang
  THEN [raised |-> FALSE, text |-> text, external |-> "none"]
  ELSE IF translator.status = "unavailable"
  THEN \* except ImportError: the import failed, nothing was called
       [raised |-> FALSE,
        text |-> mock_translate(text, source_lang, target_lang),
        external |-> "none"]
  ELSE LET call == <<lang_to_code(source_lang, "auto"),
                     lang_to_code(target_lang, "en")>>
       IN IF translator.status = "ok"
          THEN [raised |-> FALSE, text |-> translator.translated,
                external |-> call]
          ELSE \* except Exception
               [raised |-> FALSE,
                text |-> mock_translate(text, source_lang, target_lang),
                external |-> call]

(***************************************************************************)
(* calculator.  eval is modelled for the expressions the character check   *)
(* lets through that are built of integer literals, + / // ( ) and blanks: *)
(* Python's grammar for them, its evaluation order and the exceptions it   *)
(* raises.  A number is a fraction n/d with d > 0; () is the empty tuple.  *)
(***************************************************************************)
Digits == <<"0", "1", "2", "3", "4", "5", "6", "7", "8", "9">>

\* set("0123456789+-*/(). ")
allowed_chars ==
  {Digits[i] : i \in 1..Len(Digits)} \cup {"+", "-", "*", "/", "(", ")", ".", " "}

IsDigit(c) == \E i \in 1..Len(Digits) : Digits[i] = c
DigitValue(c) == (CHOOSE i \in 1..Len(Digits) : Digits[i] = c) - 1

\* the end of the run of digits that starts at position i
RECURSIVE DigitsEnd(_, _)
DigitsEnd(text, i) ==
  IF i < Len(text) /\ IsDigit(text[i + 1]) THEN DigitsEnd(text, i + 1) ELSE i

RECURSIVE DecimalValue(_, _, _)
DecimalValue(text, i, j) ==
  IF j < i THEN 0 ELSE 10 * DecimalValue(text, i, j - 1) + DigitValue(text[j])

\* the tokens of text from position i on.  An integer literal is a run of
\* digits; one that starts with 0 and is not zero is no literal of Python 3.
RECURSIVE Tokenize(_, _)
Tokenize(text, i) ==
  IF i > Len(text) THEN <<>>
  ELSE IF text[i] = " " THEN Tokenize(text, i + 1)
  ELSE IF IsDigit(text[i])
  THEN LET j == DigitsEnd(text, i)
           v == DecimalValue(text, i, j)
       IN <<[t |-> IF text[i] = "0" /\ v # 0 THEN "bad" ELSE "num",
             v |-> v]>> \o Tokenize(text, j + 1)
  ELSE IF text[i] = "/" /\ i < Len(text) /\ text[i + 1] = "/"
  THEN <<[t |-> "//", v |-> 0]>> \o Tokenize(text, i + 2)
  ELSE IF text[i] \in {"+", "/", "(", ")"}
  THEN <<[t |-> text[i], v |-> 0]>> \o Tokenize(text, i + 1)
  ELSE <<[t |-> "bad", v |-> 0]>> \o Tokenize(text, i + 1)

Num(n, d) == [kind |-> "num", n |-> n, d |-> d, cause |-> ""]
EmptyTuple == [kind |-> "tuple", n |-> 0, d |-> 1, cause |-> ""]
Raised(cause) == [kind |-> "raised", n |-> 0, d |-> 1, cause |-> cause]

\* the operators on values; the left operand is evaluated first, so its
\* exception is the one that is raised
Plus(a, b) ==
  IF a.kind = "raised" THEN a
  ELSE IF b.kind = "raised" THEN b
  ELSE IF a.kind = "num" /\ b.kind = "num"
  THEN Num(a.n * b.d + b.n * a.d, a.d * b.d)
  ELSE IF a.kind = "tuple" /\ b.kind = "tuple" THEN EmptyTuple
  ELSE Raised("TypeError")

TrueDiv(a, b) ==
  IF a.kind = "raised" THEN a
  ELSE IF b.kind = "raised" THEN b
  ELSE IF a.kind # "num" \/ b.kind # "num" THEN Raised("TypeError")
  ELSE IF b.n = 0 THEN Raised("ZeroDivisionError")
  ELSE Num(a.n * b.d, a.d * b.n)

FloorDiv(a, b) ==
  IF a.kind = "raised" THEN a
  ELSE IF b.kind = "raised" THEN b
  ELSE IF a.kind # "num" \/ b.kind # "num" THEN Raised("TypeError")
  ELSE IF b.n = 0 THEN Raised("ZeroDivisionError")
  ELSE Num((a.n * b.d) \div (a.d * b.n), 1)

UnaryPlus(a) ==
  IF a.kind = "tuple" THEN Raised("TypeError") ELSE a

\* f(args) on a value that is no function
CallValue(f, arg) ==
  IF f.kind = "raised" THEN f
  ELSE IF arg.kind = "raised" THEN arg
  ELSE Raised("TypeError")

\* The parser.  A result is the position after what was read and its value,
\* or ok = FALSE when the tokens are no expression.
NoParse == [ok |-> FALSE, pos |-> 0, val |-> Raised("SyntaxError")]
Parsed(pos, val) == [ok |-> TRUE, pos |-> pos, val |-> val]
TokenAt(toks, pos) == IF pos <= Len(toks) THEN toks[pos].t ELSE "end"

RECURSIVE ParseSum(_, _)
RECURSIVE SumRest(_, _, _)
RECURSIVE ParseTerm(_, _)
RECURSIVE TermRest(_, _, _)
RECURSIVE ParseFactor(_, _)
RECURSIVE ParsePrimary(_, _)
RECURSIVE Trailers(_, _, _)

\* arith_expr: term ('+' term)*
ParseSum(toks, pos) ==
  LET l == ParseTerm(toks, pos)
  IN IF l.ok THEN SumRest(toks, l.pos, l.val) ELSE NoParse

SumRest(toks, pos, acc) ==
  IF TokenAt(toks, pos) = "+"
  THEN LET r == ParseTerm(toks, pos + 1)
       IN IF r.ok THEN SumRest(toks, r.pos, Plus(acc, r.val)) ELSE NoParse
  ELSE Parsed(pos, acc)

\* term: factor (('/' | '//') factor)*
ParseTerm(toks, pos) ==
  LET l == ParseFactor(toks, pos)
  IN IF l.ok THEN TermRest(toks, l.pos, l.val) ELSE NoParse

TermRest(toks, pos, acc) ==
  IF TokenAt(toks, pos) \in {"/", "//"}
  THEN LET r == ParseFactor(toks, pos + 1)
       IN IF ~r.ok THEN NoParse
          ELSE TermRest(toks, r.pos,
                        IF toks[pos].t = "/" THEN TrueDiv(acc, r.val)
                        ELSE FloorDiv(acc, r.val))
  ELSE Parsed(pos, acc)

\* factor: '+' factor | primary
ParseFactor(toks, pos) ==
  IF TokenAt(toks, pos) = "+"
  THEN LET f == ParseFactor(toks, pos + 1)
       IN IF f.ok THEN Parsed(f.pos, UnaryPlus(f.val)) ELSE NoParse
  ELSE ParsePrimary(toks, pos)

\* primary: atom trailer* ; atom: NUMBER | '(' ')' | '(' arith_expr ')'
ParsePrimary(toks, pos) ==
  IF TokenAt(toks, pos) = "num"
  THEN Trailers(toks, pos + 1, Num(toks[pos].v, 1))
  ELSE IF TokenAt(toks, pos) = "("
  THEN IF TokenAt(toks, pos + 1) = ")"
       THEN Trailers(toks, pos + 2, EmptyTuple)
       ELSE LET e == ParseSum(toks, pos + 1)
            IN IF e.ok /\ TokenAt(toks, e.pos) = ")"
               THEN Trailers(toks, e.pos + 1, e.val)
               ELSE NoParse
  ELSE NoParse

\* trailer: '(' ')' | '(' arith_expr ')' , a call
Trailers(toks, pos, val) ==
  IF TokenAt(toks, pos) = "("
  THEN IF TokenAt(toks, pos + 1) = ")"
       THEN Trailers(toks, pos + 2, CallValue(val, EmptyTuple))
       ELSE LET a == ParseSum(toks, pos + 1)
            IN IF a.ok /\ TokenAt(toks, a.pos) = ")"
               THEN Trailers(toks, a.pos + 1, CallValue(val, a.val))
               ELSE NoParse
  ELSE Parsed(pos, val)

\* eval(expression): the whole text has to be one expression
Eval(expression) ==
  LET toks == Tokenize(expression, 1)
      e == ParseSum(toks, 1)
  IN IF e.ok /\ e.pos = Len(toks) + 1 THEN e.val ELSE Raised("SyntaxError")

\* round(result, 2), in hundredths; a tuple cannot be rounded.  A value
\* exactly between two hundredths goes to the even one here; Python decides
\* by the binary expansion of the float (round(1/200, 2) is 0.01), and no
\* expression of at most four characters over ExprAlphabet has such a value.
RoundResult(val) ==
  IF val.kind = "raised" THEN val
  ELSE IF val.kind = "tuple" THEN Raised("TypeError")
  ELSE LET q == (100 * val.n) \div val.d
           r == (100 * val.n) % val.d
       IN Num(IF 2 * r < val.d THEN q
              ELSE IF 2 * r > val.d THEN q + 1
              ELSE IF q % 2 = 0 THEN q ELSE q + 1, 100)

\* what calculator returns: a number, or one of its two error strings;
\* evaluated tells whether eval was reached, raised whether an exception
\* left the function
Rejected ==
  [kind |-> "error", message |-> "Error: Invalid characters in expression",
   cause |-> "", value |-> 0, evaluated |-> FALSE, raised |-> FALSE]

Calculated(val) ==
  IF val.kind = "raised"
  THEN [kind |-> "error", message |-> "Error calculating",
        cause |-> val.cause, value |-> 0, evaluated |-> TRUE,
        raised |-> FALSE]
  ELSE [kind |-> "number", message |-> "", cause |-> "", value |-> val.n,
        evaluated |-> TRUE, raised |-> FALSE]

\* faulty variant: the expression goes to eval unchecked
calculator_unchecked(expression) ==
  Calculated(RoundResult(Eval(expression)))

calculator(expression) ==
  IF \E i \in 1..Len(expression) : expression[i] \notin allowed_chars
  THEN Rejected
  ELSE Calculated(RoundResult(Eval(expression)))

(***************************************************************************)
(* The prompts a user submits: the chat input or an example button        *)
(* (app.py:23-38, 345-352).  A prompt is named by its index in            *)
(* PromptTexts.                                                            *)
(***************************************************************************)
PromptTexts ==
  << <<"T","o","p"," ","5">>,
     <<"L","i","s","t","a"," ","d","e"," ","5">> >>
Prompts == 1..Len(PromptTexts)

(***************************************************************************)
(* The external Voicebox service, seen through either transport.  A reply *)
(* is a transport failure, a remote-reported error, a body that does not  *)
(* parse, or a result; a result carries a conversation id or none (cid =  *)
(* NoId: the key is absent) and an answer of some JSON type: a string, a  *)
(* list (sliceable, but no string) or null (neither).                      *)
(***************************************************************************)
AnswerKinds == {"str", "list", "null"}
FailureKinds == {"transport_error", "remote_error", "malformed"}

ServiceReplies ==
  {[status |-> s, cid |-> NoId, answer |-> "str"] : s \in FailureKinds}
  \cup {[status |-> "ok", cid |-> c, answer |-> a] :
           c \in ConvIds \cup {NoId}, a \in AnswerKinds}

(***************************************************************************)
(* Values shared by the backend operations.  A request records whether    *)
(* the operation sent one to the service and the conversation id it       *)
(* carried (NoId: none).  A response is the dict an operation returns,    *)
(* with the set of its keys.                                               *)
(***************************************************************************)
NoRequest == [made |-> FALSE, conversation_id |-> NoId]
NoResponse ==
  [keys |-> {}, answer |-> "none", conversation_id |-> NoId,
   tool_calls |-> <<>>, chain_steps |-> <<>>]
NoError == [message |-> "", cause |-> ""]

\* what one call of a backend operation did
Outcome(op, ok, cid, request, response, error, ran) ==
  [op |-> op, ok |-> ok, conversation_id |-> cid, request |-> request,
   response |-> response, error |-> error, ran |-> ran]

(***************************************************************************)
(* LangChainBackend.query                                                  *)
(***************************************************************************)
\* input_data = {"question": question}, plus the conversation id if truthy
input_data(conversation_id) ==
  [made |-> TRUE,
   conversation_id |-> IF conversation_id # NoId THEN conversation_id ELSE NoId]

\* faulty variant: the id is taken from the result whether it has one or not
update_conversation_id_always(conversation_id, result) == result.cid

\* faulty variant: the id the server returns is never stored
update_conversation_id_dropped(conversation_id, result) == conversation_id

\* if "conversation_id" in result: self.conversation_id = result[...]
update_conversation_id(conversation_id, result) ==
  IF result.cid # NoId THEN result.cid ELSE conversation_id

LangChainQuery(conversation_id, reply) ==
  IF reply.status # "ok"
  THEN \* ainvoke raises; the except clause wraps the cause
       Outcome("query", FALSE, conversation_id, input_data(conversation_id),
               NoResponse,
               [message |-> "LangChain backend query failed",
                cause |-> reply.status], <<>>)
  ELSE Outcome("query", TRUE, update_conversation_id(conversation_id, reply),
               input_data(conversation_id),
               [keys |-> {"answer", "conversation_id"},
                answer |-> reply.answer, conversation_id |-> reply.cid,
                tool_calls |-> <<>>, chain_steps |-> <<>>],
               NoError, <<>>)

\* faulty variant: the reset leaves the id in place
reset_conversation_noop(conversation_id) == conversation_id

\* both backends: self.conversation_id = None
reset_conversation(conversation_id) == NoId

(***************************************************************************)
(* MCPBackend.query                                                        *)
(***************************************************************************)
\* payload["params"]["arguments"], with the conversation id if truthy
payload(conversation_id) ==
  [made |-> TRUE,
   conversation_id |-> IF conversation_id # NoId THEN conversation_id ELSE NoId]

\* the except clause that catches each failure
MCPErrorMessage(status) ==
  CASE status = "transport_error" -> "MCP backend HTTP error"
    [] status = "malformed" -> "MCP backend JSON parse error"
    [] OTHER -> "MCP backend query failed"

MCPQuery(conversation_id, reply) ==
  IF reply.status # "ok"
  THEN Outcome("query", FALSE, conversation_id, payload(conversation_id),
               NoResponse,
               [message |-> MCPErrorMessage(reply.status),
                cause |-> reply.status], <<>>)
  ELSE Outcome("query", TRUE,
               IF reply.cid # NoId THEN reply.cid ELSE conversation_id,
               payload(conversation_id),
               [keys |-> {"answer", "sparql", "results", "conversation_id"},
                answer |-> reply.answer, conversation_id |-> reply.cid,
                tool_calls |-> <<>>, chain_steps |-> <<>>],
               NoError, <<>>)

(***************************************************************************)
(* LangChainBackend.query_with_agent: the walk over the transcript the    *)
(* agent runtime returns.  A message has a type, a content and, on an ai  *)
(* message, the names of the tools it calls.  A content is a text kept by  *)
(* a token and its length, so that the cut to OutputLimit characters      *)
(* shows.                                                                  *)
(***************************************************************************)
OutputLimit == 200

NoContent == [text |-> "", len |-> 0]
ToolContents == {[text |-> "4", len |-> 1], [text |-> "rows", len |-> 250]}
AnswerContent == [text |-> "The answer is 4", len |-> 15]
InterimContent == [text |-> "Let me check", len |-> 12]

\* str(msg.content)[:200]
Truncate(content) ==
  [text |-> content.text,
   len |-> IF content.len > OutputLimit THEN OutputLimit ELSE content.len]

HumanMessage == [type |-> "human", content |-> AnswerContent, tool_calls |-> <<>>]
AIMessages ==
  {[type |-> "ai", content |-> AnswerContent, tool_calls |-> <<>>],
   [type |-> "ai", content |-> InterimContent, tool_calls |-> <<>>],
   [type |-> "ai", content |-> NoContent, tool_calls |-> <<>>],
   [type |-> "ai", content |-> NoContent, tool_calls |-> <<[name |-> "calculator", args |-> "2+2"]>>],
   [type |-> "ai", content |-> NoContent,
    tool_calls |-> <<[name |-> "calculate_distance", args |-> "Chicago,Detroit"],
                     [name |-> "calculate_shipping_cost", args |-> "283,15"]>>]}
ToolMessages ==
  {[type |-> "tool", content |-> c, tool_calls |-> <<>>] : c \in ToolContents}
Messages == {HumanMessage} \cup AIMessages \cup ToolMessages

\* faulty variant: only the first call of a message is recorded
NewEntriesFirst(msg) ==
  [i \in 1..(IF msg.tool_calls = <<>> THEN 0 ELSE 1) |->
     [tool |-> msg.tool_calls[i].name, input |-> msg.tool_calls[i].args,
      output |-> NoContent]]

\* the entries one ai message opens, in the order of its tool_calls
NewEntries(msg) ==
  [i \in 1..Len(msg.tool_calls) |->
     [tool |-> msg.tool_calls[i].name, input |-> msg.tool_calls[i].args,
      output |-> NoContent]]

\* if tool_calls_list: tool_calls_list[-1]["output"] = str(msg.content)[:200]
AttachOutput(tool_calls_list, content) ==
  IF tool_calls_list = <<>> THEN tool_calls_list
  ELSE [tool_calls_list EXCEPT ![Len(tool_calls_list)].output =
                                  Truncate(content)]

\* faulty variant: the answer is the content of the first ai message
WalkStepFirstAnswer(acc, msg, pos) ==
  LET answer == IF msg.type = "ai" /\ acc.answer = NoContent
                THEN msg.content ELSE acc.answer
  IN IF msg.tool_calls # <<>>
     THEN [answer |-> answer,
           tool_calls_list |-> acc.tool_calls_list \o NewEntries(msg),
           writes |-> acc.writes]
     ELSE IF msg.type = "tool"
     THEN [answer |-> answer,
           tool_calls_list |-> AttachOutput(acc.tool_calls_list, msg.content),
           writes |-> IF acc.tool_calls_list = <<>> THEN acc.writes
                      ELSE Append(acc.writes,
                                  [pos |-> pos,
                                   entry |-> Len(acc.tool_calls_list)])]
     ELSE [answer |-> answer, tool_calls_list |-> acc.tool_calls_list,
           writes |-> acc.writes]

\* one turn of  for msg in messages ; writes logs, for every result that
\* was attached, the position of the message and the entry it went to
WalkStep(acc, msg, pos) ==
  LET answer == IF msg.type = "ai" THEN msg.content ELSE acc.answer
  IN IF msg.tool_calls # <<>>
     THEN [answer |-> answer,
           tool_calls_list |-> acc.tool_calls_list \o NewEntries(msg),
           writes |-> acc.writes]
     ELSE IF msg.type = "tool"
     THEN [answer |-> answer,
           tool_calls_list |-> AttachOutput(acc.tool_calls_list, msg.content),
           writes |-> IF acc.tool_calls_list = <<>> THEN acc.writes
                      ELSE Append(acc.writes,
                                  [pos |-> pos,
                                   entry |-> Len(acc.tool_calls_list)])]
     ELSE [answer |-> answer, tool_calls_list |-> acc.tool_calls_list,
           writes |-> acc.writes]

RECURSIVE Walk(_, _)
Walk(messages, n) ==
  IF n = 0
  THEN [answer |-> NoContent, tool_calls_list |-> <<>>, writes |-> <<>>]
  ELSE WalkStep(Walk(messages, n - 1), messages[n], n)

NoAnswerGenerated == [text |-> "No answer generated.", len |-> 20]

\* the response dict of query_with_agent for a transcript
AgentResponse(messages) ==
  LET w == Walk(messages, Len(messages))
  IN [answer |-> IF w.answer.len > 0 THEN w.answer ELSE NoAnswerGenerated,
      tool_calls |-> w.tool_calls_list,
      agent_steps |-> Len(w.tool_calls_list),
      writes |-> w.writes]

(***************************************************************************)
(* LangChainBackend.query_with_chain: the four stages of the translation  *)
(* chain over the dict  data , composed with | and run by one ainvoke.    *)
(* data.failed holds the cause once a stage has raised; data.ran lists    *)
(* the stages that were entered.                                           *)
(***************************************************************************)
Step(name, result) == [step |-> name, result |-> result]

\* a tool's invoke validates its arguments against the signature
\* (text: str) before the body runs, and raises when one does not fit
ToolAccepts(kind) == kind = "str"

detect_and_prepare(conversation_id, q) ==
  LET lang == detect_language(PromptTexts[q])
  IN [question |-> q, translated |-> FALSE, detected_lang |-> lang,
      answer |-> "none", chain_steps |-> <<Step("detect_language", lang)>>,
      conversation_id |-> conversation_id, request |-> NoRequest,
      failed |-> "", ran |-> <<"detect_and_prepare">>]

translate_to_english(data) ==
  LET entered == [data EXCEPT !.ran = Append(@, "translate_to_english")]
  IN IF data.detected_lang # "English"
     THEN [entered EXCEPT
             !.chain_steps = Append(@, Step("translate_to_english", "English")),
             !.translated = TRUE]
     ELSE entered

\* faulty variant: the chain opens a conversation of its own on every run
query_voicebox_fresh(data, reply) ==
  LET entered == [data EXCEPT !.ran = Append(@, "query_voicebox"),
                              !.request = input_data(NoId)]
  IN IF reply.status # "ok"
     THEN [entered EXCEPT !.failed = reply.status]
     ELSE IF reply.answer = "null"
     THEN [entered EXCEPT !.failed = "TypeError"]
     ELSE [entered EXCEPT
             !.chain_steps = Append(@, Step("voicebox_query", reply.answer)),
             !.conversation_id = update_conversation_id(@, reply),
             !.answer = reply.answer]

query_voicebox(data, reply) ==
  LET entered == [data EXCEPT !.ran = Append(@, "query_voicebox"),
                              !.request = input_data(data.conversation_id)]
  IN IF reply.status # "ok"
     THEN [entered EXCEPT !.failed = reply.status]
     ELSE IF reply.answer = "null"
     THEN \* answer[:200] on a value that cannot be sliced
          [entered EXCEPT !.failed = "TypeError"]
     ELSE [entered EXCEPT
             !.chain_steps = Append(@, Step("voicebox_query", reply.answer)),
             !.conversation_id = update_conversation_id(@, reply),
             !.answer = reply.answer]

\* faulty variant: the answer is translated back whatever the language
translate_back_always(data) ==
  LET entered == [data EXCEPT !.ran = Append(@, "translate_back")]
  IN IF ToolAccepts(data.answer)
     THEN [entered EXCEPT
             !.chain_steps =
                Append(@, Step("translate_to_source", data.detected_lang))]
     ELSE [entered EXCEPT !.failed = "ValidationError"]

translate_back(data) ==
  LET entered == [data EXCEPT !.ran = Append(@, "translate_back")]
  IN IF data.detected_lang # "English"
     THEN IF ToolAccepts(data.answer)
          THEN [entered EXCEPT
                  !.chain_steps =
                     Append(@, Step("translate_to_source", data.detected_lang))]
          ELSE [entered EXCEPT !.failed = "ValidationError"]
     ELSE entered

\* faulty variant: the chain goes on to the next stage after a failure
PipeOn(data, next) == next

\* a | b : b runs on a's output, unless a raised
Pipe(data, next) == IF data.failed # "" THEN data ELSE next

translation_chain(conversation_id, q, reply) ==
  LET d1 == detect_and_prepare(conversation_id, q)
      d2 == Pipe(d1, translate_to_english(d1))
      d3 == Pipe(d2, query_voicebox(d2, reply))
  IN Pipe(d3, translate_back(d3))

ChainTypes == {"translation", "summary"}

\* faulty variant: an unknown chain type runs the translation chain
QueryWithChainLenient(conversation_id, q, chain_type, reply) ==
  LET result == translation_chain(conversation_id, q, reply)
  IN IF result.failed # ""
     THEN Outcome("query_with_chain", FALSE, result.conversation_id,
                  result.request, NoResponse,
                  [message |-> "Chain query failed", cause |-> result.failed],
                  result.ran)
     ELSE Outcome("query_with_chain", TRUE, result.conversation_id,
                  result.request,
                  [keys |-> {"answer", "original_question",
                             "detected_language", "chain_steps", "mode"},
                   answer |-> result.answer, conversation_id |-> NoId,
                   tool_calls |-> <<>>, chain_steps |-> result.chain_steps],
                  NoError, result.ran)

\* try: if chain_type == "translation": ... else: raise ValueError(...)
\* except Exception as e: raise Exception(f"Chain query failed: {str(e)}")
QueryWithChain(conversation_id, q, chain_type, reply) ==
  IF chain_type # "translation"
  THEN Outcome("query_with_chain", FALSE, conversation_id, NoRequest,
               NoResponse,
               [message |-> "Chain query failed",
                cause |-> "Unknown chain type"], <<>>)
  ELSE LET result == translation_chain(conversation_id, q, reply)
       IN IF result.failed # ""
          THEN Outcome("query_with_chain", FALSE, result.conversation_id,
                       result.request, NoResponse,
                       [message |-> "Chain query failed",
                        cause |-> result.failed], result.ran)
          ELSE Outcome("query_with_chain", TRUE, result.conversation_id,
                       result.request,
                       [keys |-> {"answer", "original_question",
                                  "detected_language", "chain_steps", "mode"},
                        answer |-> result.answer, conversation_id |-> NoId,
                        tool_calls |-> <<>>,
                        chain_steps |-> result.chain_steps],
                       NoError, result.ran)

(***************************************************************************)
(* query_with_agent as a backend operation: the agent runtime raises or   *)
(* returns a transcript; the conversation id is not used.                  *)
(***************************************************************************)
\* faulty variant: an agent run starts a new conversation
QueryWithAgentFresh(conversation_id, run) ==
  IF run.status # "ok"
  THEN Outcome("query_with_agent", FALSE, NoId, NoRequest, NoResponse,
               [message |-> "Agent query failed", cause |-> run.status], <<>>)
  ELSE LET r == AgentResponse(run.messages)
       IN Outcome("query_with_agent", TRUE, NoId, NoRequest,
                  [keys |-> {"answer", "tool_calls", "agent_steps", "mode"},
                   answer |-> "str", conversation_id |-> NoId,
                   tool_calls |-> r.tool_calls, chain_steps |-> <<>>],
                  NoError, <<>>)

QueryWithAgent(conversation_id, run) ==
  IF run.status # "ok"
  THEN Outcome("query_with_agent", FALSE, conversation_id, NoRequest,
               NoResponse,
               [message |-> "Agent query failed", cause |-> run.status], <<>>)
  ELSE LET r == AgentResponse(run.messages)
       IN Outcome("query_with_agent", TRUE, conversation_id, NoRequest,
                  [keys |-> {"answer", "tool_calls", "agent_steps", "mode"},
                   answer |-> "str", conversation_id |-> NoId,
                   tool_calls |-> r.tool_calls, chain_steps |-> <<>>],
                  NoError, <<>>)

(***************************************************************************)
(* The Streamlit session of app.py.                                        *)
(***************************************************************************)
VARIABLES
  backend,               \* st.session_state.backend, with its conversation id
  backend_type,          \* st.session_state.backend_type
  messages,              \* st.session_state.messages
  query_mode,            \* st.session_state.query_mode
  show_sparql,           \* st.session_state.show_sparql
  show_tool_calls,       \* st.session_state.show_tool_calls
  last_tool_calls_mode,  \* st.session_state.last_tool_calls_mode
  last,                  \* what this run did: the button pressed, or the
                         \* prompt, the method it went to, the outcome of
                         \* the call and whether run_async returned it
  server_id,             \* id of the latest good service reply that had one
  transcript,            \* the transcript given to the agent walk
  agent_result,          \* the response built from transcript
  tool_call,             \* the tool of langchain_tools.py invoked last, with
                         \* its arguments
  tool_result            \* what that invocation returned

vars ==
  <<backend, backend_type, messages, query_mode, show_sparql, show_tool_calls,
    last_tool_calls_mode, last, server_id, transcript, agent_result,
    tool_call, tool_result>>

\* no tool was invoked on its own
NoToolCall == [tool |-> "none", args |-> <<>>]
NoToolResult == "none"

BackendTypes == {"langchain", "mcp"}
QueryModes == {"simple", "agent", "chain"}

NoBackend == [kind |-> "none", conversation_id |-> NoId]

\* faulty variant: the constructor goes on without a token
NewBackendUnchecked(kind, has_token) ==
  [kind |-> kind, conversation_id |-> NoId]

\* LangChainBackend.__init__ / MCPBackend.__init__ : a token is required
NewBackend(kind, has_token) ==
  IF has_token THEN [kind |-> kind, conversation_id |-> NoId] ELSE NoBackend

\* what __init__ did: the ValueError of the token check, raised before the
\* client and the runnable (or the HTTP headers) are set up, or the parts
\* it set up; it sends no request
Constructed(kind, has_token) ==
  LET b == NewBackend(kind, has_token)
  IN IF b = NoBackend
     THEN Outcome("__init__", FALSE, NoId, NoRequest, NoResponse,
                  [message |-> "Failed to initialize backend",
                   cause |-> "API token is required"], <<>>)
     ELSE Outcome("__init__", TRUE, NoId, NoRequest, NoResponse, NoError,
                  IF kind = "langchain"
                  THEN <<"VoiceboxClient", "VoiceboxAskRunnable">>
                  ELSE <<"headers">>)

\* get_backend: None when the constructor raised
get_backend(kind, has_token) ==
  IF kind \in BackendTypes THEN NewBackend(kind, has_token) ELSE NoBackend

\* hasattr(st.session_state.backend, name)
HasAttr(kind, name) ==
  \/ name = "query" /\ kind \in BackendTypes
  \/ name \in {"query_with_agent", "query_with_chain"} /\ kind = "langchain"

\* faulty variant: the capability probe is dropped
DispatchUnchecked(mode, kind) ==
  IF mode = "agent" THEN "query_with_agent"
  ELSE IF mode = "chain" THEN "query_with_chain"
  ELSE "query"

\* main: the method the prompt is handed to
Dispatch(mode, kind) ==
  IF mode = "agent" /\ HasAttr(kind, "query_with_agent") THEN "query_with_agent"
  ELSE IF mode = "chain" /\ HasAttr(kind, "query_with_chain")
  THEN "query_with_chain"
  ELSE "query"

\* the methods of LangChainBackend are async def and return a coroutine;
\* MCPBackend.query is a plain def and returns its dict
ReturnsCoroutine(kind, op) == kind = "langchain"

\* run_async: loop.run_until_complete(coro) raises TypeError on a value
\* that is no awaitable
run_async(kind, outcome) ==
  IF ~outcome.ok THEN [ok |-> FALSE, error |-> outcome.error.message]
  ELSE IF ReturnsCoroutine(kind, outcome.op)
  THEN [ok |-> TRUE, error |-> ""]
  ELSE [ok |-> FALSE, error |-> "TypeError"]

\* render_assistant_response: response.get("answer", ...).replace("$", ...)
\* raises on an answer that is no string
Renders(response) == response.answer = "str"

\* A turn of the history is kept by its role, the prompt of a user turn
\* and the keys of the dict of an assistant turn: those of the response, or
\* "text" alone for an error message.
UserTurn(p) ==
  [role |-> "user", kind |-> "prompt", prompt |-> p, keys |-> {}]
ResponseTurn(response) ==
  [role |-> "assistant", kind |-> "response", prompt |-> 0,
   keys |-> response.keys]
ErrorTurn(msg) ==
  [role |-> "assistant", kind |-> "error", prompt |-> 0, keys |-> {"text"}]

\* faulty variant: the response is appended before it is rendered
AssistantTurnUnrendered(kind, outcome) ==
  LET awaited == run_async(kind, outcome)
  IN IF ~awaited.ok THEN ErrorTurn(awaited.error)
     ELSE ResponseTurn(outcome.response)

\* the try/except of main around dispatch, rendering and the append
AssistantTurn(kind, outcome) ==
  LET awaited == run_async(kind, outcome)
  IN IF ~awaited.ok THEN ErrorTurn(awaited.error)
     ELSE IF ~Renders(outcome.response) THEN ErrorTurn("AttributeError")
     ELSE ResponseTurn(outcome.response)

\* render_sidebar, Display Options: the state of the two check boxes after
\* a run in which they show the values sparql_box and tools_box
DisplayOptions(mode, sparql_box, tools_box, ltm) ==
  [show_sparql |-> IF mode = "simple" THEN sparql_box ELSE FALSE,
   show_tool_calls |->
      IF mode \in {"agent", "chain"}
      THEN (IF ltm # mode THEN TRUE ELSE tools_box)
      ELSE FALSE,
   last_tool_calls_mode |-> IF mode \in {"agent", "chain"} THEN mode ELSE ltm]

Sidebar(mode, sparql_box, tools_box) ==
  LET d == DisplayOptions(mode, sparql_box, tools_box, last_tool_calls_mode)
  IN /\ show_sparql' = d.show_sparql
     /\ show_tool_calls' = d.show_tool_calls
     /\ last_tool_calls_mode' = d.last_tool_calls_mode

\* no transcript was walked yet
NoAgentResult ==
  [answer |-> NoContent, tool_calls |-> <<>>, agent_steps |-> -1,
   writes |-> <<>>]

NoOutcome ==
  Outcome("none", FALSE, NoId, NoRequest, NoResponse, NoError, <<>>)

\* no service call, no agent run
NoReply == [status |-> "none", cid |-> NoId, answer |-> "str"]
NoRun == [status |-> "none", messages |-> <<>>]

\* the run had no prompt and pressed neither Reset Context nor Clear Chat
NoLast ==
  [handler |-> "none", prompt |-> 0, mode |-> "simple", kind |-> "none",
   before |-> NoId, turns_before |-> 0, invoked |-> <<>>,
   outcome |-> NoOutcome, awaited |-> FALSE, has_token |-> FALSE,
   chain_type |-> "none", reply |-> NoReply]

\* the run pressed Initialize App, Reset Context or Clear Chat, with the
\* conversation id and the length of the history it found
Pressed(button) ==
  [handler |-> button, prompt |-> 0, mode |-> query_mode,
   kind |-> backend.kind, before |-> backend.conversation_id,
   turns_before |-> Len(messages), invoked |-> <<>>, outcome |-> NoOutcome,
   awaited |-> FALSE, has_token |-> FALSE, chain_type |-> "none",
   reply |-> NoReply]

\* the runs of the agent a session meets
AgentRuns ==
  {[status |-> "error", messages |-> <<>>],
   [status |-> "ok",
    messages |-> <<HumanMessage,
                   [type |-> "ai", content |-> AnswerContent,
                    tool_calls |-> <<>>]>>],
   [status |-> "ok",
    messages |-> <<HumanMessage,
                   [type |-> "ai", content |-> NoContent,
                    tool_calls |-> <<[name |-> "calculator",
                                      args |-> "2+2"]>>],
                   [type |-> "tool", content |-> [text |-> "4", len |-> 1],
                    tool_calls |-> <<>>],
                   [type |-> "ai", content |-> AnswerContent,
                    tool_calls |-> <<>>]>>]}

Init ==
  /\ backend = NoBackend
  /\ backend_type = "langchain"
  /\ messages = <<>>
  /\ query_mode = "simple"
  /\ show_sparql = TRUE
  /\ show_tool_calls = FALSE
  /\ last_tool_calls_mode = "unset"
  /\ last = NoLast
  /\ server_id = NoId
  /\ transcript = <<>>
  /\ agent_result = NoAgentResult
  /\ tool_call = NoToolCall
  /\ tool_result = NoToolResult

\* the backend radio shows another type: the backend is dropped
SelectBackend(bt) ==
  /\ bt # backend_type
  /\ backend_type' = bt
  /\ backend' = NoBackend
  /\ server_id' = NoId
  /\ Sidebar(query_mode, show_sparql, show_tool_calls)
  /\ last' = NoLast
  /\ UNCHANGED <<tool_call, tool_result>>
  /\ UNCHANGED <<messages, query_mode, transcript, agent_result>>

\* the Initialize App button
InitializeApp(has_token) ==
  LET b == get_backend(backend_type, has_token)
  IN /\ backend' = IF b # NoBackend THEN b ELSE backend
     /\ server_id' = IF b # NoBackend THEN NoId ELSE server_id
     /\ Sidebar(query_mode, show_sparql, show_tool_calls)
     /\ last' = [Pressed("initialize") EXCEPT
                   !.kind = backend_type, !.has_token = has_token,
                   !.outcome = Constructed(backend_type, has_token)]
     /\ UNCHANGED <<tool_call, tool_result>>
     /\ UNCHANGED <<backend_type, messages, query_mode, transcript,
                    agent_result>>

\* the Demo Mode select box, shown for an initialized LangChain backend
SelectMode(m) ==
  /\ backend_type = "langchain" /\ backend # NoBackend
  /\ m # query_mode
  /\ query_mode' = m
  /\ Sidebar(m, show_sparql, show_tool_calls)
  /\ last' = NoLast
  /\ UNCHANGED <<tool_call, tool_result>>
  /\ UNCHANGED <<backend, backend_type, messages, server_id, transcript,
                 agent_result>>

\* the Show Generated SPARQL check box, shown in simple mode
ToggleSparql ==
  /\ query_mode = "simple"
  /\ Sidebar(query_mode, ~show_sparql, show_tool_calls)
  /\ last' = NoLast
  /\ UNCHANGED <<tool_call, tool_result>>
  /\ UNCHANGED <<backend, backend_type, messages, query_mode, server_id,
                 transcript, agent_result>>

\* the Show Tool Calls / Chain Steps check box, shown in agent and chain mode
ToggleToolCalls ==
  /\ query_mode \in {"agent", "chain"}
  /\ Sidebar(query_mode, show_sparql, ~show_tool_calls)
  /\ last' = NoLast
  /\ UNCHANGED <<tool_call, tool_result>>
  /\ UNCHANGED <<backend, backend_type, messages, query_mode, server_id,
                 transcript, agent_result>>

\* the Reset Context button
ResetContext ==
  /\ backend # NoBackend
  /\ backend' = [backend EXCEPT
                   !.conversation_id = reset_conversation(@)]
  /\ server_id' = NoId
  /\ Sidebar(query_mode, show_sparql, show_tool_calls)
  /\ last' = Pressed("reset_context")
  /\ UNCHANGED <<tool_call, tool_result>>
  /\ UNCHANGED <<backend_type, messages, query_mode, transcript,
                 agent_result>>

\* faulty variant: Clear Chat forgets the history and keeps the context
ClearChatKeepsContext ==
  /\ backend # NoBackend
  /\ messages' = <<>>
  /\ last' = Pressed("clear_chat")
  /\ Sidebar(query_mode, show_sparql, show_tool_calls)
  /\ UNCHANGED <<tool_call, tool_result>>
  /\ UNCHANGED <<backend, server_id, backend_type, query_mode, transcript,
                 agent_result>>

\* the Clear Chat button
ClearChat ==
  /\ backend # NoBackend
  /\ messages' = <<>>
  /\ backend' = [backend EXCEPT
                   !.conversation_id = reset_conversation(@)]
  /\ server_id' = NoId
  /\ Sidebar(query_mode, show_sparql, show_tool_calls)
  /\ last' = Pressed("clear_chat")
  /\ UNCHANGED <<tool_call, tool_result>>
  /\ UNCHANGED <<backend_type, query_mode, transcript, agent_result>>

\* the backend operation a prompt runs, with what the service or the agent
\* runtime answers
Invoke(op, kind, conversation_id, p, reply, run) ==
  CASE op = "query_with_agent" -> QueryWithAgent(conversation_id, run)
    [] op = "query_with_chain" ->
         QueryWithChain(conversation_id, p, "translation", reply)
    [] OTHER -> IF kind = "langchain"
                THEN LangChainQuery(conversation_id, reply)
                ELSE MCPQuery(conversation_id, reply)

\* the id of the latest reply of the service that had one
NextServerId(op, reply, current) ==
  IF op # "query_with_agent" /\ reply.status = "ok" /\ reply.cid # NoId
  THEN reply.cid ELSE current

\* a prompt from the chat input or an example button
Submit(p, reply, run) ==
  LET op == Dispatch(query_mode, backend.kind)
      outcome == Invoke(op, backend.kind, backend.conversation_id, p, reply,
                        run)
  IN /\ backend # NoBackend
     /\ Len(messages) < 2 * MaxPrompts
     /\ messages' = messages \o <<UserTurn(p),
                                  AssistantTurn(backend.kind, outcome)>>
     /\ backend' = [backend EXCEPT
                      !.conversation_id = outcome.conversation_id]
     /\ last' = [handler |-> "submit", prompt |-> p, mode |-> query_mode,
                 kind |-> backend.kind, before |-> backend.conversation_id,
                 turns_before |-> Len(messages), invoked |-> <<op>>,
                 outcome |-> outcome,
                 awaited |-> run_async(backend.kind, outcome).ok,
                 has_token |-> TRUE,
                 chain_type |-> IF op = "query_with_chain"
                                THEN "translation" ELSE "none",
                 reply |-> reply]
     /\ server_id' = NextServerId(op, reply, server_id)
     /\ Sidebar(query_mode, show_sparql, show_tool_calls)
     /\ UNCHANGED <<tool_call, tool_result>>
     /\ UNCHANGED <<backend_type, query_mode, transcript, agent_result>>

\* a prompt handed to query
SubmitQuery ==
  /\ Dispatch(query_mode, backend.kind) = "query"
  /\ \E p \in Prompts, reply \in ServiceReplies : Submit(p, reply, NoRun)

\* a prompt handed to query_with_chain
SubmitToChain ==
  /\ Dispatch(query_mode, backend.kind) = "query_with_chain"
  /\ \E p \in Prompts, reply \in ServiceReplies : Submit(p, reply, NoRun)

\* a prompt answered by the agent
SubmitToAgent ==
  /\ Dispatch(query_mode, backend.kind) = "query_with_agent"
  /\ \E p \in Prompts, run \in AgentRuns : Submit(p, NoReply, run)

Next ==
  \/ \E bt \in BackendTypes : SelectBackend(bt)
  \/ \E has_token \in BOOLEAN : InitializeApp(has_token)
  \/ \E m \in QueryModes : SelectMode(m)
  \/ ToggleSparql
  \/ ToggleToolCalls
  \/ ResetContext
  \/ ClearChat
  \/ SubmitQuery
  \/ SubmitToChain
  \/ SubmitToAgent

Spec == Init /\ [][Next]_vars

(***************************************************************************)
(* A session whose backend serves simple queries and agent runs only: no  *)
(* prompt reaches query_with_chain.                                        *)
(***************************************************************************)
NextSimple ==
  \/ \E bt \in BackendTypes : SelectBackend(bt)
  \/ \E has_token \in BOOLEAN : InitializeApp(has_token)
  \/ \E m \in QueryModes : SelectMode(m)
  \/ ToggleSparql
  \/ ToggleToolCalls
  \/ ResetContext
  \/ ClearChat
  \/ SubmitQuery
  \/ SubmitToAgent

SpecSimple == Init /\ [][NextSimple]_vars

(***************************************************************************)
(* The agent walk on its own: the runtime emits a transcript message by   *)
(* message, then query_with_agent walks it.                                *)
(***************************************************************************)
AgentEmits(msg) ==
  /\ agent_result = NoAgentResult
  /\ Len(transcript) < MaxMsgs
  /\ transcript' = Append(transcript, msg)
  /\ UNCHANGED <<tool_call, tool_result>>
  /\ UNCHANGED <<backend, backend_type, messages, query_mode, show_sparql,
                 show_tool_calls, last_tool_calls_mode, last, server_id,
                 agent_result>>

WalkTranscript ==
  /\ agent_result = NoAgentResult
  /\ agent_result' = AgentResponse(transcript)
  /\ UNCHANGED <<tool_call, tool_result>>
  /\ UNCHANGED <<backend, backend_type, messages, query_mode, show_sparql,
                 show_tool_calls, last_tool_calls_mode, last, server_id,
                 transcript>>

NextAgent ==
  \/ \E msg \in Messages : AgentEmits(msg)
  \/ WalkTranscript

SpecAgent == Init /\ [][NextAgent]_vars

(***************************************************************************)
(* A backend object used directly: a caller constructs it with a token and *)
(* then calls query, query_with_chain with a chain type, query_with_agent  *)
(* and reset_conversation in any order.                                    *)
(***************************************************************************)
InitApi ==
  /\ \E kind \in BackendTypes :
        /\ backend = NewBackend(kind, TRUE)
        /\ backend_type = kind
  /\ messages = <<>>
  /\ query_mode = "simple"
  /\ show_sparql = TRUE
  /\ show_tool_calls = FALSE
  /\ last_tool_calls_mode = "unset"
  /\ last = NoLast
  /\ server_id = NoId
  /\ transcript = <<>>
  /\ agent_result = NoAgentResult
  /\ tool_call = NoToolCall
  /\ tool_result = NoToolResult

\* one awaited call of a backend method and what it left behind
Called(p, chain_type, reply, outcome) ==
  /\ backend' = [backend EXCEPT !.conversation_id = outcome.conversation_id]
  /\ last' = [handler |-> "call", prompt |-> p, mode |-> query_mode,
              kind |-> backend.kind, before |-> backend.conversation_id,
              turns_before |-> 0, invoked |-> <<outcome.op>>,
              outcome |-> outcome, awaited |-> outcome.ok,
              has_token |-> TRUE, chain_type |-> chain_type,
              reply |-> IF outcome.request.made THEN reply ELSE NoReply]
  /\ server_id' = IF outcome.request.made
                  THEN NextServerId(outcome.op, reply, server_id)
                  ELSE server_id
  /\ UNCHANGED <<tool_call, tool_result>>
  /\ UNCHANGED <<backend_type, messages, query_mode, show_sparql,
                 show_tool_calls, last_tool_calls_mode, transcript,
                 agent_result>>

CallQuery ==
  \E p \in Prompts, reply \in ServiceReplies :
     Called(p, "none", reply,
            IF backend.kind = "langchain"
            THEN LangChainQuery(backend.conversation_id, reply)
            ELSE MCPQuery(backend.conversation_id, reply))

CallQueryWithChain ==
  /\ HasAttr(backend.kind, "query_with_chain")
  /\ \E p \in Prompts, chain_type \in ChainTypes, reply \in ServiceReplies :
        Called(p, chain_type, reply,
               QueryWithChain(backend.conversation_id, p, chain_type, reply))

CallQueryWithAgent ==
  /\ HasAttr(backend.kind, "query_with_agent")
  /\ \E p \in Prompts, run \in AgentRuns :
        Called(p, "none", NoReply,
               QueryWithAgent(backend.conversation_id, run))

CallResetConversation ==
  /\ backend' = [backend EXCEPT !.conversation_id = reset_conversation(@)]
  /\ server_id' = NoId
  /\ last' = Pressed("reset_conversation")
  /\ UNCHANGED <<tool_call, tool_result>>
  /\ UNCHANGED <<backend_type, messages, query_mode, show_sparql,
                 show_tool_calls, last_tool_calls_mode, transcript,
                 agent_result>>

NextApi ==
  \/ CallQuery
  \/ CallQueryWithChain
  \/ CallQueryWithAgent
  \/ CallResetConversation

SpecApi == InitApi /\ [][NextApi]_vars

(***************************************************************************)
(* The tools of langchain_tools.py invoked on their own: one invocation,   *)
(* on arguments drawn from the sets below.  The tools keep no state, so    *)
(* one invocation from the initial state shows all a tool does.            *)
(***************************************************************************)
\* all texts over alphabet of at most n characters
TextsUpTo(alphabet, n) == UNION {[1..k -> alphabet] : k \in 0..n}

\* the letters of the keywords "el" and "wo", one of them in upper case
\* too, and a letter of no keyword
DetectAlphabet == {"e", "l", "E", "w", "o", "x"}

Invoked(tool, args, result) ==
  /\ tool_call = NoToolCall
  /\ tool_call' = [tool |-> tool, args |-> args]
  /\ tool_result' = result
  /\ UNCHANGED <<backend, backend_type, messages, query_mode, show_sparql,
                 show_tool_calls, last_tool_calls_mode, last, server_id,
                 transcript, agent_result>>

InvokeDetectLanguage ==
  \E text \in TextsUpTo(DetectAlphabet, MaxTextLen) :
     Invoked("detect_language", <<text>>, detect_language(text))

\* a place as a caller may write it: as listed, in lower case, in upper
\* case, and with blanks around it
Spellings(city) ==
  {city, Lower(city), [i \in 1..Len(city) |-> UpperChar(city[i])],
   <<" ">> \o Lower(city) \o <<" ", " ">>}

Cities ==
  {LosAngeles, SanFrancisco, SanDiego, LasVegas, Sacramento, SanJose,
   NewYork, Boston, Philadelphia, Chicago, Detroit, Milwaukee}

\* the listed cities and a place that is not listed, in every spelling,
\* and the empty text
Locations ==
  UNION {Spellings(city) : city \in Cities \cup {<<"P","a","r","i","s">>}}
    \cup {<<>>}

InvokeCalculateDistance ==
  \E location1, location2 \in Locations :
     Invoked("calculate_distance", <<location1, location2>>,
             calculate_distance(location1, location2))

\* order values in cents, on both sides of the two tier boundaries
OrderValues == {0, 1999, 2000, 2001, 5000, 9999, 10000, 10001, 25000}

\* distances in hundredths of a mile: 0, 0.12, 10 and 283.04 miles
Distances == {0, 12, 1000, 28304}

InvokeCalculateShippingCost ==
  \E distance_miles \in Distances, order_value \in OrderValues :
     Invoked("calculate_shipping_cost", <<distance_miles, order_value>>,
             calculate_shipping_cost(distance_miles, order_value))

\* the language names the tool documents and one it does not
Languages == {"English", "Spanish", "German", "French"}

\* the phrases of the table, a phrase of no table, the empty text
Phrases ==
  {e[3] : e \in translations} \cup {<<"H", "o", "l", "a">>, <<>>}

TranslatorOutcomes ==
  {[status |-> "unavailable", translated |-> <<>>],
   [status |-> "failed", translated |-> <<>>],
   [status |-> "ok", translated |-> <<"H", "e", "l", "l", "o">>]}

InvokeTranslateText ==
  \E text \in Phrases, source_lang \in Languages, target_lang \in Languages,
     translator \in TranslatorOutcomes :
     Invoked("translate_text",
             <<text, source_lang, target_lang, translator>>,
             translate_text(text, source_lang, target_lang, translator))

\* characters of arithmetic and two characters the check refuses
ExprAlphabet == {"0", "1", "2", "+", "/", "(", ")", " ", "a", "_"}

InvokeCalculator ==
  \E expression \in TextsUpTo(ExprAlphabet, MaxExprLen) :
     Invoked("calculator", <<expression>>, calculator(expression))

NextTools ==
  \/ InvokeDetectLanguage
  \/ InvokeTranslateText
  \/ InvokeCalculateDistance
  \/ InvokeCalculateShippingCost
  \/ InvokeCalculator

SpecTools == Init /\ [][NextTools]_vars

(***************************************************************************)
(* Properties.                                                             *)
(***************************************************************************)
Submitted == last.handler = "submit"
LastTurn == messages[Len(messages)]
IsPrefix(a, b) == Len(a) <= Len(b) /\ SubSeq(b, 1, Len(a)) = a

\* C1: a simple-mode request carries exactly the id of the latest good
\* reply that had one since construction or the last reset, and no id when
\* there was no such reply.  server_id is that id before the step.
C1_RequestCarriesLatestId ==
  [][(last'.handler = "submit" /\ last'.outcome.op = "query")
       => last'.outcome.request =
            [made |-> TRUE, conversation_id |-> server_id]]_vars

\* a request that carried one id, answered by a reply that replaced it
C1_Witness ==
  /\ Submitted /\ last.outcome.op = "query" /\ last.outcome.ok
  /\ last.outcome.request.conversation_id # NoId
  /\ backend.conversation_id # NoId
  /\ backend.conversation_id # last.outcome.request.conversation_id

\* C2: a backend operation that ends in failure leaves the active
\* conversation id as it was before the call.
C2_FailureKeepsId ==
  (Submitted /\ ~last.outcome.ok) => backend.conversation_id = last.before

\* C3: one prompt invokes exactly one backend operation: query_with_agent
\* in agent mode and query_with_chain in chain mode when the backend has
\* the method, query otherwise.
C3_DispatchesOne ==
  Submitted =>
    /\ Len(last.invoked) = 1
    /\ last.outcome.op = last.invoked[1]
    /\ last.invoked[1] =
         (CASE last.mode = "agent" /\ last.kind = "langchain"
                 -> "query_with_agent"
            [] last.mode = "chain" /\ last.kind = "langchain"
                 -> "query_with_chain"
            [] OTHER -> "query")

\* agent mode on the MCP backend fell back to query
C3_Witness ==
  Submitted /\ last.kind = "mcp" /\ last.mode = "agent"
  /\ last.invoked = <<"query">>

\* C4: in agent or chain mode on the MCP backend the prompt goes to query
\* and, when that query succeeds, the assistant turn is the response,
\* without tool_calls, and no error.
C4_FallbackAnswers ==
  (Submitted /\ last.kind = "mcp" /\ last.mode \in {"agent", "chain"}
     /\ last.outcome.ok /\ last.outcome.response.answer = "str")
  => /\ last.invoked = <<"query">>
     /\ LastTurn.kind = "response"
     /\ "tool_calls" \notin LastTurn.keys

StepNames(chain_steps) == [i \in 1..Len(chain_steps) |-> chain_steps[i].step]

\* C5: a successful query_with_chain returns the steps detect_language,
\* translate_to_english, voicebox_query, translate_to_source in that order
\* for a question that is not English, and detect_language, voicebox_query
\* for an English one.
C5_ChainSteps ==
  (Submitted /\ last.outcome.op = "query_with_chain" /\ last.outcome.ok)
  => StepNames(last.outcome.response.chain_steps) =
       (IF detect_language(PromptTexts[last.prompt]) # "English"
        THEN <<"detect_language", "translate_to_english", "voicebox_query",
               "translate_to_source">>
        ELSE <<"detect_language", "voicebox_query">>)

\* a chain run on a Spanish question that returned four steps
C5_Witness ==
  /\ Submitted /\ last.outcome.op = "query_with_chain" /\ last.outcome.ok
  /\ Len(last.outcome.response.chain_steps) = 4
  /\ last.outcome.response.chain_steps[1].result = "Spanish"

(***************************************************************************)
(* Pairing of tool results with tool calls by order: a result answers the *)
(* oldest call that is open (opened and not yet answered) when it         *)
(* arrives, and no call when none is open.                                 *)
(***************************************************************************)
RECURSIVE Opened(_, _)
Opened(msgs, n) ==
  IF n = 0 THEN 0 ELSE Opened(msgs, n - 1) + Len(msgs[n].tool_calls)

RECURSIVE Answered(_, _)
Answered(msgs, n) ==
  IF n = 0 THEN 0
  ELSE Answered(msgs, n - 1)
       + (IF msgs[n].type = "tool"
             /\ Answered(msgs, n - 1) < Opened(msgs, n - 1)
          THEN 1 ELSE 0)

\* the entry the message at pos answers, 0 when it answers none
AnswersEntry(msgs, pos) ==
  IF msgs[pos].type = "tool"
     /\ Answered(msgs, pos - 1) < Opened(msgs, pos - 1)
  THEN Answered(msgs, pos - 1) + 1 ELSE 0

\* a transcript as the agent runtime returns it: the results of the calls
\* of an ai message follow it, one for each call, before the next ai message
RuntimeShaped(msgs) ==
  /\ \A pos \in 1..Len(msgs) :
        /\ msgs[pos].type = "tool" => AnswersEntry(msgs, pos) # 0
        /\ msgs[pos].type = "ai"
             => Answered(msgs, pos - 1) = Opened(msgs, pos - 1)
  /\ Answered(msgs, Len(msgs)) = Opened(msgs, Len(msgs))

Walked == agent_result # NoAgentResult

\* C6: the walk pairs tool results with tool_calls entries one to one by
\* order: every result sets the output of the entry of the call it answers,
\* no entry takes the output of two results, and a result with no open call
\* changes nothing.  Stated for the transcripts the agent runtime returns.
C6_PairsByOrder ==
  (Walked /\ RuntimeShaped(transcript)) =>
    LET w == agent_result.writes
        results == {pos \in 1..Len(transcript) : transcript[pos].type = "tool"}
    IN /\ \A pos \in results :
            IF AnswersEntry(transcript, pos) = 0
            THEN \A i \in 1..Len(w) : w[i].pos # pos
            ELSE \E i \in 1..Len(w) :
                    w[i] = [pos |-> pos,
                            entry |-> AnswersEntry(transcript, pos)]
       /\ \A i, j \in 1..Len(w) : i # j => w[i].entry # w[j].entry
       /\ \A e \in 1..Len(agent_result.tool_calls) :
            agent_result.tool_calls[e].output =
              (IF \E pos \in results : AnswersEntry(transcript, pos) = e
               THEN Truncate(transcript[CHOOSE pos \in results :
                                AnswersEntry(transcript, pos) = e].content)
               ELSE NoContent)

C8_AppendOnly ==
  [][/\ last'.handler = "clear_chat"
          => messages' = <<>> /\ backend'.conversation_id = NoId
     /\ last'.handler # "clear_chat" => IsPrefix(messages, messages')
     /\ (last.handler = "clear_chat" /\ last'.handler = "submit"
           /\ last'.outcome.request.made)
          => last'.outcome.request.conversation_id = NoId]_vars

\* Clear Chat pressed on a history with turns and an active conversation
C8_Witness ==
  /\ last.handler = "clear_chat" /\ last.turns_before > 0
  /\ last.before # NoId
  /\ messages = <<>> /\ backend.conversation_id = NoId

\* C9: reset_conversation clears the conversation id whatever it was, on
\* either backend, and a second reset changes nothing.
C9_ResetClears ==
  /\ last.handler = "reset_context" => backend.conversation_id = NoId
  /\ \A c \in ConvIds \cup {NoId} :
        /\ reset_conversation(c) = NoId
        /\ reset_conversation(reset_conversation(c)) = reset_conversation(c)

\* Reset Context pressed while a conversation was active
C9_Witness ==
  /\ last.handler = "reset_context" /\ last.before # NoId
  /\ backend.conversation_id = NoId

\* C10: a failure in any stage of query_with_chain ends the chain: the
\* operation fails with "Chain query failed" and the cause, no later stage
\* is entered, and no chain result comes back; the turn is an error.
C10_ChainAborts ==
  (Submitted /\ last.outcome.op = "query_with_chain" /\ ~last.outcome.ok)
  => LET o == last.outcome
     IN /\ o.error.message = "Chain query failed"
        /\ o.error.cause \in FailureKinds \cup {"TypeError", "ValidationError"}
        /\ o.response = NoResponse
        /\ o.ran = (IF o.error.cause = "ValidationError"
                    THEN <<"detect_and_prepare", "translate_to_english",
                           "query_voicebox", "translate_back">>
                    ELSE <<"detect_and_prepare", "translate_to_english",
                           "query_voicebox">>)
        /\ LastTurn.kind = "error"

\* the service call of a chain on a Spanish question failed
C10_Witness ==
  /\ Submitted /\ last.outcome.op = "query_with_chain" /\ ~last.outcome.ok
  /\ last.outcome.error.cause = "transport_error"
  /\ detect_language(PromptTexts[last.prompt]) = "Spanish"
\* the positions of the assistant messages of a transcript
Assistants(msgs) == {pos \in 1..Len(msgs) : msgs[pos].type = "ai"}

\* the last assistant message of a transcript that has one
LastAssistant(msgs) ==
  msgs[CHOOSE pos \in Assistants(msgs) :
         \A other \in Assistants(msgs) : other <= pos]

\* a transcript of a finished agent run: the prompt, then runtime-shaped
\* messages that end with an assistant message that calls no tool
FinishedRun(msgs) ==
  /\ Len(msgs) >= 2
  /\ msgs[1] = HumanMessage
  /\ RuntimeShaped(msgs)
  /\ msgs[Len(msgs)].type = "ai" /\ msgs[Len(msgs)].tool_calls = <<>>

\* C12 as stated: the answer is the content of the last assistant message,
\* and the sentinel "No answer generated." exactly when the transcript has
\* no assistant message.  Stated for the transcripts of finished runs.
C12_LastAssistantOrSentinel ==
  (Walked /\ FinishedRun(transcript))
  => /\ agent_result.answer = LastAssistant(transcript).content
     /\ agent_result.answer # NoAnswerGenerated

\* C12 amended: the answer is the content of the last assistant message
\* when that content is not empty, and the sentinel exactly when there is
\* no assistant message or the last one has an empty content.
C12_LastNonEmptyOrSentinel ==
  Walked =>
    IF Assistants(transcript) # {}
       /\ LastAssistant(transcript).content # NoContent
    THEN agent_result.answer = LastAssistant(transcript).content
    ELSE agent_result.answer = NoAnswerGenerated

C12_Witness ==
  /\ Walked
  /\ Cardinality(Assistants(transcript)) >= 2
  /\ LastAssistant(transcript).content = AnswerContent
  /\ \E pos \in Assistants(transcript) :
        transcript[pos].content = InterimContent
  /\ agent_result.answer = AnswerContent

\* the tool invocations of a transcript, in transcript order
RECURSIVE Invocations(_, _)
Invocations(msgs, n) ==
  IF n = 0 THEN <<>> ELSE Invocations(msgs, n - 1) \o msgs[n].tool_calls

\* the transcript of the worked example: one call of calculator, its
\* result, the final answer
CalculatorRun ==
  <<[type |-> "ai", content |-> NoContent,
     tool_calls |-> <<[name |-> "calculator", args |-> "2+2"]>>],
    [type |-> "tool", content |-> [text |-> "4", len |-> 1],
     tool_calls |-> <<>>],
    [type |-> "ai", content |-> AnswerContent, tool_calls |-> <<>>]>>

\* C13: tool_calls has one entry per tool invocation of the transcript, in
\* transcript order, with the name and the input of the invocation;
\* agent_steps is the number of entries; the worked example gives one entry
\* with the result as its output.
C13_EntryPerInvocation ==
  Walked =>
    LET inv == Invocations(transcript, Len(transcript))
        tc == agent_result.tool_calls
    IN /\ Len(tc) = Len(inv)
       /\ \A i \in 1..Len(inv) :
            tc[i].tool = inv[i].name /\ tc[i].input = inv[i].args
       /\ agent_result.agent_steps = Len(tc)
       /\ transcript = CalculatorRun
            => /\ agent_result.answer = AnswerContent
               /\ tc = <<[tool |-> "calculator", input |-> "2+2",
                          output |-> [text |-> "4", len |-> 1]]>>
               /\ agent_result.agent_steps = 1

C13_Witness ==
  /\ Walked
  /\ agent_result.agent_steps = 3
  /\ agent_result.tool_calls[1].tool = "calculator"
  /\ agent_result.tool_calls[3].tool = "calculate_shipping_cost"

\* C14: Initialize App without an API token: the constructor of either
\* backend fails on the token check before it sets up anything or sends a
\* request, get_backend returns no backend, and the session keeps the
\* backend it had.
C14_NoTokenNoBackend ==
  [][(last'.handler = "initialize" /\ ~last'.has_token)
       => /\ ~last'.outcome.ok
          /\ last'.outcome.error.cause = "API token is required"
          /\ last'.outcome.request = NoRequest
          /\ last'.outcome.ran = <<>>
          /\ get_backend(last'.kind, last'.has_token) = NoBackend
          /\ backend' = backend]_vars

C14_Witness ==
  /\ last.handler = "initialize" /\ ~last.has_token
  /\ backend # NoBackend /\ backend.conversation_id # NoId

C15_CalculatorNeverRaises ==
  tool_call.tool = "calculator" =>
    LET expression == tool_call.args[1]
        arithmetic == {"0", "1", "2", "3", "4", "5", "6", "7", "8", "9",
                       "+", "-", "*", "/", "(", ")", ".", " "}
        foreign == \E i \in 1..Len(expression) :
                      expression[i] \notin arithmetic
    IN /\ ~tool_result.raised
       /\ tool_result.kind \in {"number", "error"}
       /\ foreign => tool_result.kind = "error" /\ ~tool_result.evaluated
       /\ tool_result.kind = "number" => ~foreign /\ tool_result.evaluated
       /\ expression \in {<<"1", "/", "0">>, <<"2", "/", "/", "0">>,
                           <<"1", "+">>, <<"(", "1">>, <<"0", "1">>, <<>>}
            => tool_result.kind = "error" /\ tool_result.evaluated
       /\ expression = <<"1", "/", "0">>
            => tool_result.cause = "ZeroDivisionError"
       /\ expression = <<"1", "+">> => tool_result.cause = "SyntaxError"
       /\ expression = <<"2", "+", "2">>
            => tool_result.kind = "number" /\ tool_result.value = 400
       /\ expression = <<"1", "/", "2">>
            => tool_result.kind = "number" /\ tool_result.value = 50

C15_Witness ==
  /\ tool_call.tool = "calculator"
  /\ tool_call.args[1] = <<"1", "+", "a">>
  /\ tool_result.kind = "error" /\ ~tool_result.evaluated

\* C16: translate_text never fails.  With source and target language the
\* same it returns the text as given and calls no translator; otherwise it
\* returns what the translator returns when that call succeeds, else the
\* entry of the static table for the exact phrase and language pair, else
\* "[Translation {source}→{target}]: {text}".
C16_TranslateFallsBack ==
  tool_call.tool = "translate_text" =>
    LET text == tool_call.args[1]
        source_lang == tool_call.args[2]
        target_lang == tool_call.args[3]
        translator == tool_call.args[4]
        listed == {e \in translations :
                     e[1] = source_lang /\ e[2] = target_lang /\ e[3] = text}
    IN /\ ~tool_result.raised
       /\ IF source_lang = target_lang
          THEN tool_result.text = text /\ tool_result.external = "none"
          ELSE IF translator.status = "ok"
          THEN tool_result.text = translator.translated
          ELSE IF listed # {}
          THEN \A e \in listed : tool_result.text = e[4]
          ELSE tool_result.text =
                 <<"[", "T", "r", "a", "n", "s", "l", "a", "t", "i", "o", "n",
                   " ">> \o LanguageName(source_lang) \o <<"→">>
                 \o LanguageName(target_lang) \o <<"]", ":", " ">> \o text

C16_Witness ==
  /\ tool_call.tool = "translate_text"
  /\ tool_call.args[2] = "English" /\ tool_call.args[3] = "Spanish"
  /\ tool_call.args[4].status = "failed"
  /\ tool_call.args[1] = <<"T","h","e"," ","t","o","t","a","l"," ","i","s">>
  /\ tool_result.text = <<"E","l"," ","t","o","t","a","l"," ","e","s">>

\* C17: calculate_shipping_cost picks the rate by the order value alone:
\* 0.50 a mile below $20, 0.20 from $20 to $100 with both ends, 0.30 above
\* $100; the cost is the distance times that rate rounded to the cent; the
\* distance and the order value are returned as given.
C17_TierBoundaries ==
  tool_call.tool = "calculate_shipping_cost" =>
    LET distance_miles == tool_call.args[1]
        order_value == tool_call.args[2]
    IN /\ order_value < 2000 => tool_result.rate_per_mile = 50
       /\ (2000 <= order_value /\ order_value <= 10000)
            => tool_result.rate_per_mile = 20
       /\ order_value > 10000 => tool_result.rate_per_mile = 30
       /\ (100 * tool_result.shipping_cost
             - distance_miles * tool_result.rate_per_mile) \in -50..50
       /\ tool_result.distance_miles = distance_miles
       /\ tool_result.order_value = order_value

C17_Witness ==
  /\ tool_call.tool = "calculate_shipping_cost"
  /\ tool_call.args = <<28304, 10000>>
  /\ tool_result.rate_per_mile = 20
  /\ tool_result.shipping_cost = 5661

\* the same letter, in either case
SameLetter(a, b) ==
  \/ a = b
  \/ \E k \in 1..Len(UpperCase) : {a, b} = {UpperCase[k], LowerCase[k]}

\* keyword occurs in text as a substring, case ignored
OccursIgnoringCase(text, keyword) ==
  \E i \in 0..(Len(text) - Len(keyword)) :
     \A j \in 1..Len(keyword) : SameLetter(text[i + j], keyword[j])

AnyOccurs(text, keywords) ==
  \E k \in 1..Len(keywords) : OccursIgnoringCase(text, keywords[k])

\* C18: detect_language answers "Spanish" whenever a Spanish keyword
\* occurs in the text, case ignored, German keywords or not; "German" when
\* no Spanish but a German keyword occurs; "English" otherwise.
C18_SpanishBeforeGerman ==
  tool_call.tool = "detect_language" =>
    LET text == tool_call.args[1]
    IN /\ tool_result \in {"English", "Spanish", "German"}
       /\ AnyOccurs(text, spanish_keywords) => tool_result = "Spanish"
       /\ (~AnyOccurs(text, spanish_keywords)
             /\ AnyOccurs(text, german_keywords)) => tool_result = "German"
       /\ (~AnyOccurs(text, spanish_keywords)
             /\ ~AnyOccurs(text, german_keywords)) => tool_result = "English"

C18_Witness ==
  /\ tool_call.tool = "detect_language"
  /\ tool_call.args[1] = <<"E", "l", "w", "o">>
  /\ tool_result = "Spanish"

\* C19: calculate_distance gives the same miles for a pair of places in
\* either order; for a pair the table lists, in either order and however
\* the places are spelled before trimming and title-casing, the miles of the
\* table; for every other pair the default 250.
C19_SymmetricDistance ==
  tool_call.tool = "calculate_distance" =>
    LET a == tool_call.args[1]
        b == tool_call.args[2]
        na == Title(Strip(a))
        nb == Title(Strip(b))
        entries == {e \in city_distances :
                      {<<na, nb>>, <<nb, na>>} \cap {<<e[1], e[2]>>} # {}}
    IN /\ tool_result = calculate_distance(b, a)
       /\ \A e \in entries : tool_result = e[3]
       /\ entries = {} => tool_result = DefaultDistance

C19_Witness ==
  /\ tool_call.tool = "calculate_distance"
  /\ tool_call.args[1] = <<" ","d","e","t","r","o","i","t"," "," ">>
  /\ tool_call.args[2] = Chicago
  /\ tool_result = 283

\* the two operations that send the question to the service
ServiceOps == {<<"query">>, <<"query_with_chain">>}

\* C20: on a LangChain backend the service request of query_with_chain
\* carries the active conversation id exactly as the request of query would,
\* a successful call of either stores the id of the reply, and a call of one
\* right after a successful call of the other sends the id that call got.
C20_SharedConversationId ==
  [][(last'.handler = "call" /\ last'.kind = "langchain"
        /\ last'.invoked \in ServiceOps /\ last'.outcome.request.made)
       => /\ last'.outcome.request =
               LangChainQuery(backend.conversation_id, last'.reply).request
          /\ last'.outcome.request.conversation_id = backend.conversation_id
          /\ (last'.outcome.ok /\ last'.reply.cid # NoId)
               => backend'.conversation_id = last'.reply.cid
          /\ (last.handler = "call" /\ last.invoked \in ServiceOps
                /\ last.invoked # last'.invoked
                /\ last.outcome.ok /\ last.reply.cid # NoId)
               => last'.outcome.request.conversation_id = last.reply.cid
    ]_vars

C20_Witness ==
  /\ last.handler = "call" /\ last.kind = "langchain"
  /\ last.invoked = <<"query_with_chain">> /\ last.outcome.ok
  /\ last.before # NoId
  /\ last.outcome.request.conversation_id = last.before
  /\ last.reply.cid \notin {NoId, last.before}
  /\ backend.conversation_id = last.reply.cid

C22_AgentLeavesConversation ==
  [][/\ (last'.handler = "call" /\ last'.invoked = <<"query_with_agent">>)
         => /\ backend' = backend
            /\ last'.outcome.request = NoRequest
     /\ (last.handler = "call" /\ last.invoked = <<"query_with_agent">>
          /\ last'.handler = "call" /\ last'.invoked \in ServiceOps
          /\ last'.outcome.request.made)
         => last'.outcome.request.conversation_id = last.before
    ]_vars

C22_Witness ==
  /\ last.handler = "call" /\ last.invoked = <<"query_with_agent">>
  /\ ~last.outcome.ok
  /\ last.before # NoId
  /\ backend.conversation_id = last.before

====
